---- MODULE Spec2Model ----
(***************************************************************************)
(* Model of the isolator executor (executor.Run and its helpers): the      *)
(* watchdog and server tasks, the sandbox construction, the dispatch loop  *)
(* and the log transmitters.                                               *)
(***************************************************************************)
EXTENDS Integers, Sequences, FiniteSets, TLC

\* ------------------------------------------------------------------ bounds

\* Requests the host sends after Config.
MaxRequests == 2
\* Writes the child shell's output pumps perform over a run.
MaxWrites == 2
\* Mounts carried by one Config.
MaxMounts == 2

\* The flush threshold of logTransmitter.Write.
Threshold == 100

\* Sizes of the byte slices the pumps hand to Write.
ChunkLens == {60}

\* ------------------------------------------------------------------ paths
\* A path is a sequence of one-character strings.

Slash == "/"
Dot == "."

\* filepath.Clean's loop: r is the read index (0-based), out the bytes kept so
\* far, dotdot the index in out below which ".." may not back up.
RECURSIVE CleanLoop(_, _, _, _, _)
CleanLoop(path, r, out, dotdot, rooted) ==
    LET n == Len(path)
        at(i) == path[i + 1]
    IN  IF r >= n THEN out
        ELSE IF at(r) = Slash THEN CleanLoop(path, r + 1, out, dotdot, rooted)
        ELSE IF at(r) = Dot /\ (r + 1 = n \/ at(r + 1) = Slash)
             THEN CleanLoop(path, r + 1, out, dotdot, rooted)
        ELSE IF at(r) = Dot /\ r + 1 < n /\ at(r + 1) = Dot
                /\ (r + 2 = n \/ at(r + 2) = Slash)
             THEN IF Len(out) > dotdot
                  THEN LET \* out.w--, then back up to the previous separator
                           cut == CHOOSE w \in dotdot..(Len(out) - 1) :
                                    /\ (w = dotdot \/ out[w + 1] = Slash)
                                    /\ \A v \in (w + 1)..(Len(out) - 1) :
                                          out[v + 1] # Slash
                       IN  CleanLoop(path, r + 2, SubSeq(out, 1, cut), dotdot, rooted)
                  ELSE IF ~rooted
                       THEN LET o2 == (IF Len(out) > 0 THEN Append(out, Slash) ELSE out)
                                        \o <<Dot, Dot>>
                            IN  CleanLoop(path, r + 2, o2, Len(o2), rooted)
                       ELSE CleanLoop(path, r + 2, out, dotdot, rooted)
        ELSE LET o2 == IF (rooted /\ Len(out) # 1) \/ (~rooted /\ Len(out) # 0)
                       THEN Append(out, Slash) ELSE out
                 \* the end of the element that starts at r
                 e == CHOOSE j \in (r + 1)..n :
                        /\ (j = n \/ at(j) = Slash)
                        /\ \A k \in r..(j - 1) : at(k) # Slash
             IN  CleanLoop(path, e, o2 \o SubSeq(path, r + 1, e), dotdot, rooted)

Clean(path) ==
    IF path = <<>> THEN <<Dot>>
    ELSE LET rooted == path[1] = Slash
             out == IF rooted THEN CleanLoop(path, 1, <<Slash>>, 1, TRUE)
                    ELSE CleanLoop(path, 0, <<>>, 0, FALSE)
         IN  IF out = <<>> THEN <<Dot>> ELSE out

\* filepath.Join(".", p): the non-empty elements joined by "/" and cleaned.
JoinDot(p) == Clean(<<Dot, Slash>> \o p)

\* A cleaned relative path that names the directory "." or something below it.
UnderRoot(p) ==
    /\ p # <<>>
    /\ p[1] # Slash
    /\ ~(Len(p) >= 2 /\ p[1] = Dot /\ p[2] = Dot /\ (Len(p) = 2 \/ p[3] = Slash))

\* ----------------------------------------------------------------- errors
\* An error value is nil or carries the text its Error method returns.

Nil == [nil |-> TRUE, text |-> ""]
Error(text) == [nil |-> FALSE, text |-> text]

\* err.Error() of a non-nil error.
ErrorText(e) == e.text

\* fmt.Errorf(prefix + ": %w", e)
Wrap(prefix, e) == Error(prefix \o ": " \o ErrorText(e))

Canceled == Error("context canceled")
EOF == Error("EOF")
ErrClosed == Error("file already closed")
ErrDecode == Error("unknown message tag")
ErrBrokenPipe == Error("broken pipe")
ErrSyscall == Error("operation not permitted")
ErrCommand == Error("command failed: exit status 1")
ErrCopy == Error("no such file or directory")
ErrApply == Error("unexpected response status: 404")

ErrFetchConfig(e) == Wrap("fetching configuration failed", e)
ErrExpectedConfig == Error("expected Config message but got another")
ErrPrepareNewRoot == Wrap("preparing new root filesystem failed", ErrSyscall)
ErrMountProc == Wrap("mounting proc failed", ErrSyscall)
ErrMountTmp == Wrap("mounting tmp failed", ErrSyscall)
ErrPopulateDev == Wrap("mounting tmpfs for dev failed", ErrSyscall)
ErrMounts == Wrap("mounting host directories failed", ErrSyscall)
ErrPivot == Wrap("pivoting root filesystem failed", ErrSyscall)
ErrReceive(e) == Wrap("receiving message failed", e)
ErrUnexpected == Error("unexpected message")
ErrSendResult == Wrap("command status reporting failed", ErrBrokenPipe)

\* ----------------------------------------------------------------- frames

StreamOut == "Out"
StreamErr == "Err"
Streams == {StreamOut, StreamErr}

HostPaths == {<<Slash, "h">>}
\* container_path values: /a, a/b, ../a, /../a, a/../../b, /a/./b
ContainerPaths ==
    {<<Slash, "a">>,
     <<"a", Slash, "b">>,
     <<Dot, Dot, Slash, "a">>,
     <<Slash, Dot, Dot, Slash, "a">>,
     <<"a", Slash, Dot, Dot, Slash, Dot, Dot, Slash, "b">>,
     <<Slash, "a", Slash, Dot, Slash, "b">>}
Mounts == [Host : HostPaths, Container : ContainerPaths, Writable : BOOLEAN]

RECURSIVE SeqsUpTo(_, _)
SeqsUpTo(S, n) ==
    IF n = 0 THEN {<<>>}
    ELSE LET shorter == SeqsUpTo(S, n - 1)
         IN  shorter \cup {Append(q, x) : q \in {t \in shorter : Len(t) = n - 1}, x \in S}

\* The mount tables applyMounts is run on.
MountLists == SeqsUpTo(Mounts, MaxMounts)

Config(chroot, mounts) == [type |-> "Config", Chroot |-> chroot, Mounts |-> mounts]

\* The mount tables of the Configs the host sends to a whole run.
HostMountLists ==
    {<<>>,
     <<[Host |-> <<Slash, "h">>, Container |-> <<Slash, "a">>, Writable |-> TRUE],
       [Host |-> <<Slash, "h">>, Container |-> <<"a", Slash, "b">>, Writable |-> FALSE]>>}
Configs == {Config(c, m) : c \in BOOLEAN, m \in HostMountLists}
Requests == [type : {"Execute", "Copy", "InitFromDocker"}]
HostFrames == Configs \cup Requests

NoMsg == [type |-> "none"]

Log(stream, text) == [type |-> "Log", Stream |-> stream, Text |-> text]
Result(errStr) == [type |-> "Result", Error |-> errStr]

\* ------------------------------------------------------- image application
\* docker.Apply and increment. Tar entry names are paths as above; the
\* filesystem is keyed by cleaned paths relative to the working directory.

\* The attempts retry.Do makes at most.
MaxAttempts == 10

\* Layers of a manifest, tar entries read over a run, and failed requests,
\* corrupted downloads and broken streams over a run.
MaxLayers == 3
MaxEntries == 3
MaxFaults == 1

\* The number of failures of a registry that never stops failing: more than
\* all the attempts Apply can make.
Unlimited == MaxAttempts * (MaxLayers + 2) + MaxFaults + 1

\* strings.HasPrefix and strings.TrimPrefix.
HasPrefix(str, prefix) ==
    Len(str) >= Len(prefix) /\ SubSeq(str, 1, Len(prefix)) = prefix
TrimPrefix(str, prefix) ==
    IF HasPrefix(str, prefix) THEN SubSeq(str, Len(prefix) + 1, Len(str)) ELSE str

\* The index of the last Slash of path, 0 when it has none.
LastSlash(path) ==
    IF \E i \in 1..Len(path) : path[i] = Slash
    THEN CHOOSE i \in 1..Len(path) :
            path[i] = Slash /\ \A j \in (i + 1)..Len(path) : path[j] # Slash
    ELSE 0

\* path without its trailing slashes.
RECURSIVE StripSlashes(_)
StripSlashes(path) ==
    IF path # <<>> /\ path[Len(path)] = Slash
    THEN StripSlashes(SubSeq(path, 1, Len(path) - 1))
    ELSE path

\* filepath.Base.
Base(path) ==
    IF path = <<>> THEN <<Dot>>
    ELSE LET stripped == StripSlashes(path)
             last == SubSeq(stripped, LastSlash(stripped) + 1, Len(stripped))
         IN  IF last = <<>> THEN <<Slash>> ELSE last

\* filepath.Dir.
Dir(path) == Clean(SubSeq(path, 1, LastSlash(path)))

\* filepath.Join of two elements.
Join(a, b) ==
    IF a = <<>> /\ b = <<>> THEN <<>>
    ELSE IF a = <<>> THEN Clean(b)
    ELSE IF b = <<>> THEN Clean(a)
    ELSE Clean(a \o <<Slash>> \o b)

WhPrefix == <<".", "w", "h", ".">>
WhOpaque == WhPrefix \o WhPrefix \o <<"o", "p", "q">>
WhPlnk == WhPrefix \o WhPrefix \o <<"p", "l", "n", "k">>

\* The paths the layers name, cleaned: d, d/x, d/x/f and d/y.
PathD == <<"d">>
PathDX == <<"d", Slash, "x">>
PathDXF == <<"d", Slash, "x", Slash, "f">>
PathDY == <<"d", Slash, "y">>
FsPaths == {PathD, PathDX, PathDXF, PathDY}

\* The working directory, in which the image is unpacked.
Cwd == <<Dot>>

\* A filesystem: the node at each path, and the content of each inode. A
\* directory or symlink has no inode of its own here; the paths that are
\* hard links of one file share its inode.
Inos == 1..Cardinality(FsPaths)
Absent == [kind |-> "absent", ino |-> 0]
DirNode == [kind |-> "dir", ino |-> 0]
SymlinkNode == [kind |-> "symlink", ino |-> 0]
FileNode(i) == [kind |-> "file", ino |-> i]
NoData == "free"
EmptyFs == [tree |-> [p \in FsPaths |-> Absent], data |-> [i \in Inos |-> NoData]]

KindOf(f, p) ==
    IF p = Cwd THEN "dir" ELSE IF p \in FsPaths THEN f.tree[p].kind ELSE "absent"
Exists(f, p) == KindOf(f, p) # "absent"

\* q lies below the directory p.
IsBelow(q, p) == q # Cwd /\ (p = Cwd \/ HasPrefix(q, p \o <<Slash>>))
Ancestors(p) == {a \in FsPaths : IsBelow(p, a)}

\* A path component above p is a file or a symlink: ENOTDIR.
BlockedAbove(f, p) == \E a \in Ancestors(p) : KindOf(f, a) \in {"file", "symlink"}

\* An inode that no path refers to is free again.
Collect(t, data) ==
    [tree |-> t,
     data |-> [i \in Inos |->
                 IF \E p \in FsPaths : t[p] = FileNode(i) THEN data[i] ELSE NoData]]

\* The inode a new file gets.
FreshIno(f) == CHOOSE i \in Inos :
                  /\ \A p \in FsPaths : f.tree[p] # FileNode(i)
                  /\ \A j \in 1..(i - 1) : \E p \in FsPaths : f.tree[p] = FileNode(j)

ENOENT == Error("no such file or directory")
ENOTDIR == Error("not a directory")
EEXIST == Error("file exists")
EISDIR == Error("is a directory")
EPERM == Error("operation not permitted")

\* os.IsNotExist and os.IsExist.
IsNotExist(e) == e = ENOENT
IsExist(e) == e = EEXIST

\* Mutant of RemoveAll: what lies below p is left behind.
RemoveAllShallow(f, p) ==
    IF BlockedAbove(f, p)
    THEN [fs |-> f, err |-> ENOTDIR]
    ELSE [fs |-> Collect([q \in FsPaths |-> IF q = p THEN Absent ELSE f.tree[q]],
                         f.data),
          err |-> Nil]

\* os.RemoveAll: removes p and what lies below it; a missing p is no error.
RemoveAll(f, p) ==
    IF BlockedAbove(f, p)
    THEN [fs |-> f, err |-> ENOTDIR]
    ELSE [fs |-> Collect([q \in FsPaths |->
                            IF q = p \/ IsBelow(q, p) THEN Absent ELSE f.tree[q]],
                         f.data),
          err |-> Nil]

\* os.MkdirAll: an existing directory is left as it is, missing parents are
\* created.
MkdirAll(f, p) ==
    IF KindOf(f, p) = "dir" THEN [fs |-> f, err |-> Nil]
    ELSE IF Exists(f, p) \/ BlockedAbove(f, p) THEN [fs |-> f, err |-> ENOTDIR]
    ELSE [fs |-> [f EXCEPT !.tree = [q \in FsPaths |->
                     IF q = p \/ q \in Ancestors(p)
                     THEN (IF Exists(f, q) THEN f.tree[q] ELSE DirNode)
                     ELSE f.tree[q]]],
          err |-> Nil]

\* The error of creating an entry at p in its parent directory, Nil if none.
ParentError(f, p) ==
    IF KindOf(f, Dir(p)) = "dir" THEN Nil
    ELSE IF BlockedAbove(f, p) THEN ENOTDIR ELSE ENOENT

\* os.OpenFile(p, O_CREATE|O_WRONLY) followed by io.Copy of data and Close:
\* a missing file is created, an existing one is written to.
WriteFile(f, p, data) ==
    IF ParentError(f, p) # Nil THEN [fs |-> f, err |-> ParentError(f, p)]
    ELSE IF KindOf(f, p) = "dir" THEN [fs |-> f, err |-> EISDIR]
    ELSE IF KindOf(f, p) = "symlink" THEN [fs |-> f, err |-> ENOENT]
    ELSE LET i == IF KindOf(f, p) = "file" THEN f.tree[p].ino ELSE FreshIno(f)
         IN  [fs |-> [tree |-> [f.tree EXCEPT ![p] = FileNode(i)],
                      data |-> [f.data EXCEPT ![i] = data]],
              err |-> Nil]

\* os.OpenFile(p, O_CREATE|O_EXCL) and Close: an empty file, or EEXIST.
CreateExcl(f, p) ==
    IF ParentError(f, p) # Nil THEN [fs |-> f, err |-> ParentError(f, p)]
    ELSE IF Exists(f, p) THEN [fs |-> f, err |-> EEXIST]
    ELSE WriteFile(f, p, "")

\* os.Symlink.
Symlink(f, p) ==
    IF ParentError(f, p) # Nil THEN [fs |-> f, err |-> ParentError(f, p)]
    ELSE IF Exists(f, p) THEN [fs |-> f, err |-> EEXIST]
    ELSE [fs |-> [f EXCEPT !.tree[p] = SymlinkNode], err |-> Nil]

\* os.Link: new becomes another name of the file old.
Link(f, old, new) ==
    IF ~Exists(f, old) THEN [fs |-> f, err |-> ENOENT]
    ELSE IF KindOf(f, old) = "dir" THEN [fs |-> f, err |-> EPERM]
    ELSE IF ParentError(f, new) # Nil THEN [fs |-> f, err |-> ParentError(f, new)]
    ELSE IF Exists(f, new) THEN [fs |-> f, err |-> EEXIST]
    ELSE [fs |-> [f EXCEPT !.tree[new] = f.tree[old]], err |-> Nil]

\* os.ReadDir: the direct children of dir.
ReadDir(f, dir) ==
    IF KindOf(f, dir) = "dir"
    THEN [files |-> {q \in FsPaths : Dir(q) = dir /\ Exists(f, q)}, err |-> Nil]
    ELSE [files |-> {}, err |-> IF Exists(f, dir) THEN ENOTDIR ELSE ENOENT]

\* tar headers: the type flag, the name as the archive spells it, and the
\* link name of a symlink or hard link.
TypeDir == "dir"
TypeReg == "reg"
TypeSymlink == "symlink"
TypeLink == "link"
TypeFifo == "fifo"
Header(type, name, linkname) == [Typeflag |-> type, Name |-> name, Linkname |-> linkname]

\* The entries a layer is made of.
Headers ==
    {Header(TypeDir, PathD \o <<Slash>>, <<>>),
     Header(TypeDir, PathDX \o <<Slash>>, <<>>),
     Header(TypeReg, PathDX, <<>>),
     Header(TypeReg, PathDXF, <<>>),
     Header(TypeSymlink, PathDY, <<"t">>),
     Header(TypeLink, PathDY, PathDX),
     Header(TypeFifo, PathDY, <<>>),
     Header(TypeReg, PathD \o <<Slash>> \o WhPrefix \o <<"x">>, <<>>),
     Header(TypeReg, WhPrefix \o PathD, <<>>),
     Header(TypeReg, PathD \o <<Slash>> \o WhOpaque, <<>>),
     Header(TypeReg, WhPlnk, <<>>)}

\* The content of a regular file of a layer.
FileData == "data"

ErrUnsupported == Error("unsupported file type")

\* A filesystem operation that was carried out on a path.
FsOp(name, path) == [op |-> name, path |-> path]

\* The outcome of one iteration of increment's loop: `created` says that the
\* entry went through the creation switch and was recorded in added.
Iteration(f, added, del, fsops, err, created) ==
    [fs |-> f, added |-> added, del |-> del, ops |-> fsops, err |-> err,
     created |-> created]

\* increment, the switch on the type flag: the entry is created.
Create(h, f) ==
    LET p == Clean(h.Name)
    IN  CASE h.Typeflag = TypeDir ->
               LET r == MkdirAll(f, p)
               IN  [fs |-> r.fs, err |-> r.err, ops |-> <<FsOp("mkdirall", p)>>]
          [] h.Typeflag = TypeReg ->
               LET r == WriteFile(f, p, FileData)
               IN  [fs |-> r.fs, err |-> r.err, ops |-> <<FsOp("write", p)>>]
          [] h.Typeflag = TypeSymlink ->
               LET r == Symlink(f, p)
               IN  [fs |-> r.fs, err |-> r.err, ops |-> <<FsOp("symlink", p)>>]
          [] h.Typeflag = TypeLink ->
               LET l == Clean(h.Linkname)
                   c == CreateExcl(f, l)
                   k == Link(c.fs, l, p)
                   pre == IF c.err = Nil THEN <<FsOp("create", l)>> ELSE <<>>
               IN  IF c.err # Nil /\ ~IsExist(c.err)
                   THEN [fs |-> f, err |-> c.err, ops |-> <<>>]
                   ELSE [fs |-> k.fs, err |-> k.err, ops |-> pre \o <<FsOp("link", p)>>]
          [] OTHER -> [fs |-> f, err |-> ErrUnsupported, ops |-> <<>>]

\* increment, the opaque marker: the children of its directory that are not
\* in added are removed.
Opaque(h, f, added, del, fsops) ==
    LET dir == Dir(h.Name)
        rd == ReadDir(f, dir)
        victims == {q \in rd.files : Join(dir, Base(q)) \notin added}
        tree == [q \in FsPaths |->
                   IF \E v \in victims : q = v \/ IsBelow(q, v)
                   THEN Absent ELSE f.tree[q]]
    IN  IF rd.err # Nil
        THEN Iteration(f, added, del, fsops, rd.err, FALSE)
        ELSE Iteration(Collect(tree, f.data), added, del,
                       fsops \o <<FsOp("readdir", dir)>>, Nil, FALSE)

\* increment, a whiteout: the path it names is removed, or recorded in del
\* when RemoveAll reports that it does not exist.
Whiteout(h, f, added, del, fsops) ==
    LET toDelete == Join(Dir(h.Name), TrimPrefix(Base(h.Name), WhPrefix))
        added1 == added \ {toDelete}
        r == RemoveAll(f, toDelete)
        fsops1 == fsops \o <<FsOp("removeall", toDelete)>>
    IN  IF r.err # Nil
        THEN IF IsNotExist(r.err)
             THEN Iteration(r.fs, added1, del \cup {toDelete}, fsops, Nil, FALSE)
             ELSE Iteration(r.fs, added1, del, fsops, r.err, FALSE)
        ELSE Iteration(r.fs, added1, del, fsops1, Nil, FALSE)

\* The operations after the creation switch that may fail.
Failures == {"none", "lchown", "chmod"}

\* Mutant of Own: the mode is set before the owner, for symlinks too.
OwnAfterChmod(h, f, added, del, fsops, fail) ==
    LET p == Clean(h.Name)
        added1 == added \cup {h.Name}
        ops2 == fsops \o <<FsOp("chmod", p)>>
    IN  IF fail = "chmod"
        THEN Iteration(f, added1, del, fsops, EPERM, TRUE)
        ELSE IF fail = "lchown"
        THEN Iteration(f, added1, del, ops2, EPERM, TRUE)
        ELSE Iteration(f, added1, del, ops2 \o <<FsOp("lchown", p)>>, Nil, TRUE)

\* increment, after the creation switch: the entry is recorded in added, its
\* owner is set and then, unless it is a symlink, its mode.
Own(h, f, added, del, fsops, fail) ==
    LET p == Clean(h.Name)
        added1 == added \cup {h.Name}
        ops2 == fsops \o <<FsOp("lchown", p)>>
    IN  IF fail = "lchown"
        THEN Iteration(f, added1, del, fsops, EPERM, TRUE)
        ELSE IF h.Typeflag = TypeSymlink
        THEN Iteration(f, added1, del, ops2, Nil, TRUE)
        ELSE IF fail = "chmod"
        THEN Iteration(f, added1, del, ops2, EPERM, TRUE)
        ELSE Iteration(f, added1, del, ops2 \o <<FsOp("chmod", p)>>, Nil, TRUE)

\* increment: one iteration of the loop over the tar entries, for the header
\* h; `fail` says which of Lchown and Chmod fails, if any.
Iterate(h, f, added, del, fail) ==
    LET name == h.Name
        r0 == RemoveAll(f, Clean(name))
        ops0 == <<FsOp("removeall", Clean(name))>>
    IN  IF r0.err # Nil /\ ~IsNotExist(r0.err)
        THEN Iteration(r0.fs, added, del, <<>>, r0.err, FALSE)
        ELSE IF Base(name) = WhPlnk
        THEN Iteration(r0.fs, added, del, ops0, Nil, FALSE)
        ELSE IF Base(name) = WhOpaque
        THEN Opaque(h, r0.fs, added, del, ops0)
        ELSE IF HasPrefix(Base(name), WhPrefix)
        THEN Whiteout(h, r0.fs, added, del, ops0)
        ELSE IF name \in del
        THEN Iteration(r0.fs, added \ {name}, del \ {name}, ops0, Nil, FALSE)
        ELSE LET c == Create(h, r0.fs)
             IN  IF c.err # Nil
                 THEN Iteration(c.fs, added, del, ops0 \o c.ops, c.err, FALSE)
                 ELSE Own(h, c.fs, added, del, ops0 \o c.ops, fail)

\* ------------------------------------------------------- log transmitter

\* string(buf): the text of a frame holds the bytes of buf, one for one.
Text(buf) == [i \in 1..Len(buf) |-> buf[i]]

\* Mutant of Write: a write that reaches the threshold exactly is still
\* buffered.
WriteBuffersAtThreshold(stream, buf, data, sendOk) ==
    LET length == Len(buf) + Len(data)
    IN  IF length <= Threshold
        THEN [buf |-> buf \o data, frames |-> <<>>, n |-> Len(data), err |-> Nil]
        ELSE IF ~sendOk
             THEN [buf |-> buf, frames |-> <<>>, n |-> 0, err |-> ErrBrokenPipe]
             ELSE [buf |-> <<>>, frames |-> <<Log(stream, Text(buf \o data))>>,
                   n |-> Len(data), err |-> Nil]

\* Mutant of Write: the frame holds the new data without the buffered bytes.
WriteDropsBuffered(stream, buf, data, sendOk) ==
    LET length == Len(buf) + Len(data)
    IN  IF length < Threshold
        THEN [buf |-> buf \o data, frames |-> <<>>, n |-> Len(data), err |-> Nil]
        ELSE IF ~sendOk
             THEN [buf |-> buf, frames |-> <<>>, n |-> 0, err |-> ErrBrokenPipe]
             ELSE [buf |-> <<>>, frames |-> <<Log(stream, Text(data))>>,
                   n |-> Len(data), err |-> Nil]

\* logTransmitter.Write: buf is lt.buf, data the slice written, sendOk whether
\* client.Send succeeds. Returns the new buffer, the frames sent, the count
\* and the error.
Write(stream, buf, data, sendOk) ==
    LET length == Len(buf) + Len(data)
    IN  IF length < Threshold
        THEN [buf |-> buf \o data, frames |-> <<>>, n |-> Len(data), err |-> Nil]
        ELSE IF ~sendOk
             THEN [buf |-> buf, frames |-> <<>>, n |-> 0, err |-> ErrBrokenPipe]
             ELSE [buf |-> <<>>, frames |-> <<Log(stream, Text(buf \o data))>>,
                   n |-> Len(data), err |-> Nil]

\* Mutant of Flush: the residual bytes are neither sent nor dropped.
FlushNothing(stream, buf, sendOk) == [buf |-> buf, frames |-> <<>>, err |-> Nil]

\* logTransmitter.Flush.
Flush(stream, buf, sendOk) ==
    IF Len(buf) = 0
    THEN [buf |-> buf, frames |-> <<>>, err |-> Nil]
    ELSE IF ~sendOk
         THEN [buf |-> buf, frames |-> <<>>, err |-> ErrBrokenPipe]
         ELSE [buf |-> <<>>, frames |-> <<Log(stream, Text(buf))>>, err |-> Nil]

\* ------------------------------------------------------------------ state

VARIABLES
    cancelled,     \* the parent context is cancelled
    cancelledMid,  \* history: it was cancelled while a request was being handled
    stdinClosed,   \* the watchdog closed os.Stdin
    stdoutOpen,    \* the host still reads the executor's stdout
    watchdog,      \* the watchdog task: "waiting" or "done"
    pc,            \* where the server task is
    first,         \* history: the result of the first Receive
    recv,          \* the result of the latest Receive
    config,        \* the Config received, NoMsg before
    mi,            \* applyMounts: index of the next mount
    ops,           \* the filesystem, mount and chroot operations that succeeded
    reqs,          \* history: the requests received by the dispatch loop
    outcomes,      \* history: the errors their handlers returned
    sent,          \* the frames written to stdout
    lt,            \* execute: the buffers of the Out and Err transmitters
    pump,          \* execute: whether a stream's copier still calls Write
    written,       \* execute: bytes the child has produced per stream
    nwrites,       \* Write calls over the run
    ret,           \* the server task's return value
    stage,         \* Apply: "idle", "token", "manifest", "layers" or "done"
    attempt,       \* retry.Do: the number of the attempt being made
    manifest,      \* Apply: l, the digests of the layers
    li,            \* Apply: index of the layer being applied
    tar,           \* increment: the tar stream is being read
    body,          \* increment: the bytes of the blob as downloaded
    entriesLeft,   \* tar entries the layers still hold for this run
    faultsLeft,    \* failures the registry and the network still cause
    fs,            \* the filesystem below the working directory
    added,         \* increment: the map added
    del,           \* increment: the map del
    hdr,           \* history: the header of the latest iteration
    eops,          \* history: the operations of the latest iteration
    fresh,         \* history: paths this attempt created that still exist
    whitedAt,      \* history: layer whose whiteout removed an earlier layer's path
    revivedAt,     \* history: layer that created such a path again
    missed,        \* history: paths whited out in this attempt while missing
    calls,         \* history: the stage and layer attempted last, and how often
    succeeded,     \* history: the stages and layers that succeeded
    lastErr,       \* history: the error of the latest attempt
    dret,          \* Apply's return value
    archive,       \* the tar entries of the layer that is applied again
    pos,           \* the entry of it that tr.Next returns next
    once           \* history: the same entries applied once, without a stop

xvars == <<cancelled, cancelledMid, stdinClosed, stdoutOpen, watchdog, pc, first,
           recv, config, mi, ops, reqs, outcomes, sent, lt, pump, written, nwrites,
           ret>>

dvars == <<stage, attempt, manifest, li, tar, body, entriesLeft, faultsLeft, fs, added, del, hdr,
           eops, fresh, whitedAt, revivedAt, missed, calls, succeeded, lastErr,
           dret, archive, pos, once>>

rvars == <<archive, pos, once>>

vars == <<xvars, dvars>>

NoRecv == [msg |-> NoMsg, err |-> Nil]
EmptyBufs == [s \in Streams |-> <<>>]
NoPumps == [s \in Streams |-> FALSE]
NoBytes == [s \in Streams |-> 0]

\* The server is between receiving a request and sending its Result.
HandlingPcs == {"exec", "flushOut", "flushErr", "copy", "apply", "result"}

NoHeader == Header("none", <<>>, <<>>)
NoCalls == [stage |-> "idle", layer |-> 0, n |-> 0]
NoneSucceeded == [token |-> FALSE, manifest |-> FALSE, layers |-> 0]

\* No layer is being applied again.
NoReapply ==
    /\ archive = <<>>
    /\ pos = 0
    /\ once = Iteration(EmptyFs, {}, {}, <<>>, Nil, FALSE)

\* No image is being applied.
DockerIdle ==
    /\ stage = "idle"
    /\ attempt = 0
    /\ manifest = <<>>
    /\ li = 0
    /\ tar = FALSE
    /\ body = <<>>
    /\ entriesLeft = 0
    /\ faultsLeft = 0
    /\ fs = EmptyFs
    /\ added = {}
    /\ del = {}
    /\ hdr = NoHeader
    /\ eops = <<>>
    /\ fresh = {}
    /\ whitedAt = [p \in FsPaths |-> 0]
    /\ revivedAt = [p \in FsPaths |-> 0]
    /\ missed = {}
    /\ calls = NoCalls
    /\ succeeded = NoneSucceeded
    /\ lastErr = Nil
    /\ dret = Nil
    /\ NoReapply

Init ==
    /\ DockerIdle
    /\ cancelled = FALSE
    /\ cancelledMid = FALSE
    /\ stdinClosed = FALSE
    /\ stdoutOpen = TRUE
    /\ watchdog = "waiting"
    /\ pc = "recvConfig"
    /\ first = NoRecv
    /\ recv = NoRecv
    /\ config = NoMsg
    /\ mi = 1
    /\ ops = <<>>
    /\ reqs = <<>>
    /\ outcomes = <<>>
    /\ sent = <<>>
    /\ lt = EmptyBufs
    /\ pump = NoPumps
    /\ written = NoBytes
    /\ nwrites = 0
    /\ ret = Nil

\* ------------------------------------------------------------ environment

\* The parent context is cancelled. Once the server has returned the group's
\* context is cancelled whatever the parent does.
CancelParent ==
    /\ ~cancelled
    /\ pc # "done"
    /\ cancelled' = TRUE
    /\ cancelledMid' = (pc \in HandlingPcs)
    /\ UNCHANGED <<stdinClosed, stdoutOpen, watchdog, pc, first, recv, config, mi,
                   ops, reqs, outcomes, sent, lt, pump, written, nwrites, ret>>
    /\ UNCHANGED dvars

\* The host closes its end of the executor's stdout: every later Send fails.
HostCloseStdout ==
    /\ stdoutOpen
    /\ pc # "done"
    /\ stdoutOpen' = FALSE
    /\ UNCHANGED <<cancelled, cancelledMid, stdinClosed, watchdog, pc, first, recv,
                   config, mi, ops, reqs, outcomes, sent, lt, pump, written,
                   nwrites, ret>>
    /\ UNCHANGED dvars

\* ctx.Done() of the group's context: the parent is cancelled or a task returned.
CtxDone == cancelled \/ pc = "done"

\* The watchdog task: <-ctx.Done(); os.Stdin.Close(); return ctx.Err().
Watchdog ==
    /\ watchdog = "waiting"
    /\ CtxDone
    /\ stdinClosed' = TRUE
    /\ watchdog' = "done"
    /\ UNCHANGED <<cancelled, cancelledMid, stdoutOpen, pc, first, recv, config, mi,
                   ops, reqs, outcomes, sent, lt, pump, written, nwrites, ret>>
    /\ UNCHANGED dvars

\* --------------------------------------------------------------- receive

\* What client.Receive can return once the frames `frames` may arrive: a frame,
\* EOF when the host closed the stream, a decoding error for an unregistered
\* tag, and only an error once stdin is closed.
ReceiveResults(frames) ==
    IF stdinClosed
    THEN {[msg |-> NoMsg, err |-> e] : e \in {EOF, ErrClosed}}
    ELSE {[msg |-> f, err |-> Nil] : f \in frames}
         \cup {[msg |-> NoMsg, err |-> e] : e \in {EOF, ErrDecode}}

\* An operation on the filesystem or the mount table.
Op(name, host, path) == [op |-> name, host |-> host, path |-> path]
Sys(name) == Op(name, <<>>, <<>>)
SysOps(names) == [i \in 1..Len(names) |-> Sys(names[i])]

\* The deferred exitChroot runs when the server returns after chroot.Enter.
ChrootEntered == config # NoMsg /\ config.Chroot /\ pc \notin {"recvConfig", "chroot"}

\* Mutant of Return: the deferred exitChroot is not run.
ReturnNoExit(e, newOps) ==
    /\ pc' = "done"
    /\ ret' = e
    /\ ops' = newOps

\* The server task returns e, having performed newOps.
Return(e, newOps) ==
    /\ pc' = "done"
    /\ ret' = e
    /\ ops' = IF ChrootEntered THEN Append(newOps, Sys("exit chroot")) ELSE newOps

\* Mutant of AsConfig: the result of the type assertion is not looked at.
AsConfigUnchecked(m) ==
    [ok |-> TRUE, config |-> IF m.type = "Config" THEN m ELSE Config(FALSE, <<>>)]

\* config, ok := msg.(wire.Config): a failed assertion leaves the zero Config.
AsConfig(m) ==
    IF m.type = "Config"
    THEN [ok |-> TRUE, config |-> m]
    ELSE [ok |-> FALSE, config |-> Config(FALSE, <<>>)]

\* Run: the first Receive and the check that it brought a Config.
ReceiveConfig ==
    /\ pc = "recvConfig"
    /\ \E r \in ReceiveResults(HostFrames) :
          /\ recv' = r
          /\ first' = r
          /\ IF r.err # Nil
             THEN Return(ErrFetchConfig(r.err), ops) /\ UNCHANGED config
             ELSE IF ~AsConfig(r.msg).ok
                  THEN Return(ErrExpectedConfig, ops) /\ UNCHANGED config
                  ELSE /\ config' = AsConfig(r.msg).config
                       /\ pc' = IF config'.Chroot THEN "chroot" ELSE "prepareNewRoot"
                       /\ UNCHANGED <<ret, ops>>
    /\ UNCHANGED <<cancelled, cancelledMid, stdinClosed, stdoutOpen, watchdog, mi,
                   reqs, outcomes, sent, lt, pump, written, nwrites>>
    /\ UNCHANGED dvars

\* ---------------------------------------------------------------- sandbox

ChrootOps == SysOps(<<"chroot .">>)
PrepareNewRootOps ==
    SysOps(<<"mount / slave", "mkdir root", "bind root root", "chdir root">>)
MountProcOps == SysOps(<<"mkdir proc", "mount proc">>)
MountTmpOps == SysOps(<<"mkdir tmp", "mount tmp">>)
PopulateDevOps ==
    SysOps(<<"mkdir dev", "mount dev",
      "create dev/console", "bind dev/console", "create dev/null", "bind dev/null",
      "create dev/zero", "bind dev/zero", "create dev/random", "bind dev/random",
      "create dev/urandom", "bind dev/urandom", "symlinks dev">>)
PivotRootOps ==
    SysOps(<<"mkdir .old", "pivot_root . .old", "remount .old private",
             "umount .old", "remove .old">>)
ConfigureDNSOps == SysOps(<<"mkdir etc", "write etc/resolv.conf">>)

\* One construction step: its operations run in order, the first that fails
\* makes the server return e, and `next` follows when all succeeded.
Step(at, stepOps, e, next) ==
    /\ pc = at
    /\ \E k \in 0..Len(stepOps) :
          LET done == ops \o SubSeq(stepOps, 1, k)
          IN  IF k < Len(stepOps)
              THEN Return(e, done)
              ELSE pc' = next /\ ops' = done /\ UNCHANGED ret
    /\ UNCHANGED <<cancelled, cancelledMid, stdinClosed, stdoutOpen, watchdog, first,
                   recv, config, mi, reqs, outcomes, sent, lt, pump, written,
                   nwrites>>
    /\ UNCHANGED dvars

EnterChroot == Step("chroot", ChrootOps, ErrSyscall, "receive")
PrepareNewRoot == Step("prepareNewRoot", PrepareNewRootOps, ErrPrepareNewRoot, "mountProc")
MountProc == Step("mountProc", MountProcOps, ErrMountProc, "mountTmp")
MountTmp == Step("mountTmp", MountTmpOps, ErrMountTmp, "populateDev")
PopulateDev == Step("populateDev", PopulateDevOps, ErrPopulateDev, "applyMounts")
\* Mutant of PivotRoot: the dispatch loop starts right after the pivot.
PivotRootThenReceive == Step("pivotRoot", PivotRootOps, ErrPivot, "receive")

PivotRoot == Step("pivotRoot", PivotRootOps, ErrPivot, "configureDNS")
ConfigureDNS == Step("configureDNS", ConfigureDNSOps, ErrSyscall, "receive")

\* applyMounts, the path a mount is made on.
MountTarget(m) == JoinDot(m.Container)

\* Mutant of MountOps: the read-only remount is made for the writable mounts.
MountOpsInverted(m) ==
    LET target == MountTarget(m)
    IN  <<Op("mkdirall", <<>>, target), Op("bind", m.Host, target)>>
        \o (IF m.Writable THEN <<Op("remount_ro", m.Host, target)>> ELSE <<>>)

\* applyMounts, the operations of one iteration of its loop.
MountOps(m) ==
    LET target == MountTarget(m)
    IN  <<Op("mkdirall", <<>>, target), Op("bind", m.Host, target)>>
        \o (IF ~m.Writable THEN <<Op("remount_ro", m.Host, target)>> ELSE <<>>)

\* applyMounts: one iteration of the loop, or its end.
ApplyMounts ==
    /\ pc = "applyMounts"
    /\ IF mi > Len(config.Mounts)
       THEN pc' = "pivotRoot" /\ UNCHANGED <<ops, ret, mi>>
       ELSE \E k \in 0..Len(MountOps(config.Mounts[mi])) :
               LET stepOps == MountOps(config.Mounts[mi])
                   done == ops \o SubSeq(stepOps, 1, k)
               IN  IF k < Len(stepOps)
                   THEN Return(ErrMounts, done) /\ UNCHANGED mi
                   ELSE /\ mi' = mi + 1
                        /\ ops' = done
                        /\ UNCHANGED <<pc, ret>>
    /\ UNCHANGED <<cancelled, cancelledMid, stdinClosed, stdoutOpen, watchdog, first,
                   recv, config, reqs, outcomes, sent, lt, pump, written, nwrites>>
    /\ UNCHANGED dvars

\* --------------------------------------------------------------- dispatch

\* The frames the host may send to the dispatch loop: requests, and its Config
\* a second time.
LoopFrames ==
    (IF Len(reqs) < MaxRequests THEN Requests ELSE {}) \cup {config}

\* Mutant of ReceiveError: the context is not looked at.
ReceiveErrorNoCtx(e) ==
    IF e = EOF THEN (IF cancelled THEN Canceled ELSE Nil) ELSE ErrReceive(e)

\* Mutant of ReceiveError: an EOF is an error like any other.
ReceiveErrorNoEOF(e) == IF cancelled THEN Canceled ELSE ErrReceive(e)

\* The error Run returns when Receive failed with e in the dispatch loop.
ReceiveError(e) ==
    IF cancelled \/ e = EOF
    THEN (IF cancelled THEN Canceled ELSE Nil)
    ELSE ErrReceive(e)

\* Mutant of HandlerPc: the switch has no default branch of its own.
HandlerPcNoDefault(type) ==
    CASE type = "Execute" -> "exec"
      [] type = "InitFromDocker" -> "apply"
      [] OTHER -> "copy"

\* Run: the switch on the message type, as the place the server goes to.
HandlerPc(type) ==
    CASE type = "Execute" -> "exec"
      [] type = "Copy" -> "copy"
      [] type = "InitFromDocker" -> "apply"
      [] OTHER -> "unexpected"

\* Run: one Receive of the dispatch loop and the switch on the message type.
Receive ==
    /\ pc = "receive"
    /\ \E r \in ReceiveResults(LoopFrames) :
          /\ recv' = r
          /\ IF r.err # Nil
             THEN /\ Return(ReceiveError(r.err), ops)
                  /\ UNCHANGED <<reqs, lt, pump, written>>
             ELSE IF HandlerPc(r.msg.type) # "unexpected"
                  THEN /\ reqs' = Append(reqs, r.msg)
                       /\ pc' = HandlerPc(r.msg.type)
                       /\ lt' = EmptyBufs
                       /\ written' = NoBytes
                       /\ pump' = [s \in Streams |-> pc' = "exec"]
                       /\ UNCHANGED <<ret, ops>>
                  ELSE /\ Return(ErrUnexpected, ops)
                       /\ UNCHANGED <<reqs, lt, pump, written>>
    /\ UNCHANGED <<cancelled, cancelledMid, stdinClosed, stdoutOpen, watchdog, first,
                   config, mi, outcomes, sent, nwrites>>
    /\ UNCHANGED dvars

\* The next n bytes of the child's output on a stream.
Chunk(from, n) == [i \in 1..n |-> (from + i) % 256]

\* execute: a copier of the running command calls Write on its transmitter
\* with a slice whose length is one of lens.
ExecWriteOf(lens) ==
    /\ pc = "exec"
    /\ nwrites < MaxWrites
    /\ \E s \in Streams, n \in lens :
          /\ pump[s]
          /\ LET w == Write(s, lt[s], Chunk(written[s], n), stdoutOpen)
             IN  /\ lt' = [lt EXCEPT ![s] = w.buf]
                 /\ sent' = sent \o w.frames
                 /\ pump' = [pump EXCEPT ![s] = (w.err = Nil)]
          /\ written' = [written EXCEPT ![s] = @ + n]
    /\ nwrites' = nwrites + 1
    /\ UNCHANGED <<cancelled, cancelledMid, stdinClosed, stdoutOpen, watchdog, pc,
                   first, recv, config, mi, ops, reqs, outcomes, ret>>
    /\ UNCHANGED dvars

ExecWrite == ExecWriteOf(ChunkLens)

\* The slice lengths of the runs that look at one Execute alone.
WriteLens == {1, 50, 60, 99, 100, 150}

LogWrite == ExecWriteOf(WriteLens)

\* The errors libexec.Exec can return: the command's, or the context's once
\* it is cancelled.
ExecErrors == {Nil, ErrCommand} \cup (IF cancelled THEN {Canceled} ELSE {})

\* execute: libexec.Exec returns; the copiers have finished.
ExecExit ==
    /\ pc = "exec"
    /\ \E e \in ExecErrors : outcomes' = Append(outcomes, e)
    /\ pump' = NoPumps
    /\ pc' = "flushOut"
    /\ UNCHANGED <<cancelled, cancelledMid, stdinClosed, stdoutOpen, watchdog, first,
                   recv, config, mi, ops, reqs, sent, lt, written, nwrites, ret>>
    /\ UNCHANGED dvars

\* execute: outTransmitter.Flush(), its error dropped.
FlushOut ==
    /\ pc = "flushOut"
    /\ LET f == Flush(StreamOut, lt[StreamOut], stdoutOpen)
       IN  /\ lt' = [lt EXCEPT ![StreamOut] = f.buf]
           /\ sent' = sent \o f.frames
    /\ pc' = "flushErr"
    /\ UNCHANGED <<cancelled, cancelledMid, stdinClosed, stdoutOpen, watchdog, first,
                   recv, config, mi, ops, reqs, outcomes, pump, written, nwrites,
                   ret>>
    /\ UNCHANGED dvars

\* execute: errTransmitter.Flush(), its error dropped, and execute returns.
FlushErr ==
    /\ pc = "flushErr"
    /\ LET f == Flush(StreamErr, lt[StreamErr], stdoutOpen)
       IN  /\ lt' = [lt EXCEPT ![StreamErr] = f.buf]
           /\ sent' = sent \o f.frames
    /\ pc' = "result"
    /\ UNCHANGED <<cancelled, cancelledMid, stdinClosed, stdoutOpen, watchdog, first,
                   recv, config, mi, ops, reqs, outcomes, pump, written, nwrites,
                   ret>>
    /\ UNCHANGED dvars

\* Run: cp.Copy returns.
CopyDone ==
    /\ pc = "copy"
    /\ \E e \in {Nil, ErrCopy} : outcomes' = Append(outcomes, e)
    /\ pc' = "result"
    /\ UNCHANGED <<cancelled, cancelledMid, stdinClosed, stdoutOpen, watchdog, first,
                   recv, config, mi, ops, reqs, sent, lt, pump, written, nwrites,
                   ret>>
    /\ UNCHANGED dvars

\* The errors docker.Apply can return.
ApplyErrors == {Nil, ErrApply} \cup (IF cancelled THEN {Canceled} ELSE {})

\* Run: docker.Apply returns.
ApplyDone ==
    /\ pc = "apply"
    /\ \E e \in ApplyErrors : outcomes' = Append(outcomes, e)
    /\ pc' = "result"
    /\ UNCHANGED <<cancelled, cancelledMid, stdinClosed, stdoutOpen, watchdog, first,
                   recv, config, mi, ops, reqs, sent, lt, pump, written, nwrites,
                   ret>>
    /\ UNCHANGED dvars

\* Mutant of ErrStr: the error string is never set.
ErrStrEmpty(err) == ""

\* Run: the error string of the Result.
ErrStr(err) == IF err # Nil THEN ErrorText(err) ELSE ""

\* Mutant of SendResultOf: under a cancelled context the server returns
\* without sending the Result.
SendResultUnlessCancelled(err) ==
    /\ pc = "result"
    /\ IF stdoutOpen /\ ~cancelled
       THEN /\ sent' = Append(sent, Result(ErrStr(err)))
            /\ pc' = "receive"
            /\ UNCHANGED <<ret, ops>>
       ELSE /\ Return(IF cancelled THEN Canceled ELSE ErrSendResult, ops)
            /\ UNCHANGED sent
    /\ UNCHANGED <<cancelled, cancelledMid, stdinClosed, stdoutOpen, watchdog, first,
                   recv, config, mi, reqs, outcomes, lt, pump, written, nwrites>>
    /\ UNCHANGED dvars

\* Run: the Result of a handler that returned err is sent and the loop goes on,
\* or Send fails and the server returns.
SendResultOf(err) ==
    /\ pc = "result"
    /\ IF stdoutOpen
       THEN /\ sent' = Append(sent, Result(ErrStr(err)))
            /\ pc' = "receive"
            /\ UNCHANGED <<ret, ops>>
       ELSE /\ Return(ErrSendResult, ops)
            /\ UNCHANGED sent
    /\ UNCHANGED <<cancelled, cancelledMid, stdinClosed, stdoutOpen, watchdog, first,
                   recv, config, mi, reqs, outcomes, lt, pump, written, nwrites>>
    /\ UNCHANGED dvars

\* Mutant of SendResult: the Result repeats the first handler's error.
SendResultStale == SendResultOf(outcomes[1])

\* Run: the Result sent is that of the handler that has just returned.
SendResult == SendResultOf(outcomes[Len(outcomes)])

\* ------------------------------------------------------------------ apply

\* retry.Retryable(err): the error marked as worth another attempt.
Retryable(e) == [nil |-> FALSE, text |-> e.text, retryable |-> TRUE]
IsRetryable(e) == "retryable" \in DOMAIN e

ErrStatus == Retryable(Error("unexpected response status: 500"))
ErrGzip == Retryable(Error("gzip: invalid header"))
ErrTar == Retryable(Error("unexpected EOF"))
ErrDigest == Retryable(Error("digest doesn't match"))

\* hex.EncodeToString: two digits per byte.
RECURSIVE Hex(_)
Hex(bytes) ==
    IF bytes = <<>> THEN <<>>
    ELSE <<bytes[1] \div 16, bytes[1] % 16>> \o Hex(SubSeq(bytes, 2, Len(bytes)))

\* "sha256:" + hex of the hash of the bytes written to the hasher; the hash
\* of a byte sequence stands for itself, so that different bytes have
\* different digests.
Sha256(bytes) == <<"sha256:">> \o Hex(bytes)

\* The blob of the i-th layer as the registry holds it: the gzip magic and
\* the compressed archive.
Blob(i) == <<31, 139, i>>

\* The blob as a download delivers it: intact, or with one byte changed.
Bodies(i) ==
    {Blob(i)} \cup {[Blob(i) EXCEPT ![k] = (@ + 1) % 256] : k \in 1..Len(Blob(i))}

\* gzip.NewReader: the header starts with the magic bytes.
GzipHeaderOk(bytes) == bytes[1] = 31 /\ bytes[2] = 139

\* The manifests the registry serves: the digests of up to MaxLayers layers.
Manifests == {[i \in 1..n |-> Sha256(Blob(i))] : n \in 0..MaxLayers}

\* The failure e of a request or of a stream, while the registry and the
\* network still fail.
Fault(e) == IF faultsLeft > 0 THEN {e} ELSE {}

\* The history of the attempts when the stage `name`, for the layer `layer`
\* if it is the layers stage, is attempted once more.
Call(name, layer) ==
    IF calls.stage = name /\ calls.layer = layer
    THEN [calls EXCEPT !.n = @ + 1]
    ELSE [stage |-> name, layer |-> layer, n |-> 1]

\* A failure has happened.
Spend(n) == IF n = Unlimited THEN n ELSE n - 1

\* Mutant of StageFailed: Apply ignores the error of a stage that has more
\* stages after it.
StageFailedGoesOn(err) ==
    IF stage = "token"
    THEN stage' = "manifest" /\ attempt' = 1 /\ UNCHANGED dret
    ELSE stage' = "done" /\ dret' = err /\ UNCHANGED attempt

\* Apply: retry.Do returned err, which Apply returns.
StageFailed(err) ==
    /\ stage' = "done"
    /\ dret' = err
    /\ UNCHANGED attempt

\* retry.Do, after an attempt returned the error err: another attempt when
\* the error is retryable and attempts are left, else the error is returned.
Failed(err) ==
    /\ lastErr' = err
    /\ IF IsRetryable(err) /\ attempt < MaxAttempts
       THEN attempt' = attempt + 1 /\ UNCHANGED <<stage, dret>>
       ELSE StageFailed(err)

\* Apply: authorize under retry.Do.
Authorize ==
    /\ stage = "token"
    /\ calls' = Call("token", 0)
    /\ \E err \in {Nil} \cup Fault(ErrStatus) :
          IF err = Nil
          THEN /\ stage' = "manifest"
               /\ attempt' = 1
               /\ succeeded' = [succeeded EXCEPT !.token = TRUE]
               /\ lastErr' = Nil
               /\ UNCHANGED <<dret, faultsLeft>>
          ELSE Failed(err) /\ faultsLeft' = Spend(faultsLeft) /\ UNCHANGED succeeded
    /\ UNCHANGED <<manifest, li, tar, body, entriesLeft, fs, added, del, hdr, eops,
                   fresh, whitedAt, revivedAt, missed>>
    /\ UNCHANGED rvars
    /\ UNCHANGED xvars

\* Apply: layers under retry.Do; with the manifest the loop over the layers
\* starts, and ends at once when there is none.
Layers ==
    /\ stage = "manifest"
    /\ calls' = Call("manifest", 0)
    /\ \E err \in {Nil} \cup Fault(ErrStatus) :
          IF err = Nil
          THEN /\ \E l \in Manifests :
                     /\ manifest' = l
                     /\ stage' = IF l = <<>> THEN "done" ELSE "layers"
               /\ li' = 1
               /\ attempt' = 1
               /\ succeeded' = [succeeded EXCEPT !.manifest = TRUE]
               /\ lastErr' = Nil
               /\ UNCHANGED <<dret, faultsLeft>>
          ELSE /\ Failed(err)
               /\ faultsLeft' = Spend(faultsLeft)
               /\ UNCHANGED <<succeeded, manifest, li>>
    /\ UNCHANGED <<tar, body, entriesLeft, fs, added, del, hdr, eops, fresh,
                   whitedAt, revivedAt, missed>>
    /\ UNCHANGED rvars
    /\ UNCHANGED xvars

\* increment: the request for the blob, the hasher, the gzip and tar readers
\* and the empty maps.
Get ==
    /\ stage = "layers"
    /\ ~tar
    /\ calls' = Call("layers", li)
    /\ \/ /\ \E err \in Fault(ErrStatus) : Failed(err)
          /\ faultsLeft' = Spend(faultsLeft)
          /\ UNCHANGED <<tar, body>>
       \/ \E b \in Bodies(li) :
             /\ b # Blob(li) => faultsLeft > 0
             /\ faultsLeft' = IF b # Blob(li) THEN Spend(faultsLeft) ELSE faultsLeft
             /\ body' = b
             /\ IF GzipHeaderOk(b)
                THEN tar' = TRUE /\ UNCHANGED <<stage, attempt, dret, lastErr>>
                ELSE Failed(ErrGzip) /\ UNCHANGED tar
    /\ added' = {}
    /\ del' = {}
    /\ fresh' = {}
    /\ missed' = {}
    /\ hdr' = NoHeader
    /\ eops' = <<>>
    /\ UNCHANGED <<manifest, li, entriesLeft, fs, whitedAt, revivedAt, succeeded>>
    /\ UNCHANGED rvars
    /\ UNCHANGED xvars

\* What an entry is: the hard-link marker, an opaque marker, a whiteout, or
\* an entry of the archive proper.
IsPlnk(h) == Base(h.Name) = WhPlnk
IsOpaque(h) == Base(h.Name) = WhOpaque
IsWhiteout(h) == HasPrefix(Base(h.Name), WhPrefix) /\ ~IsPlnk(h) /\ ~IsOpaque(h)
IsPlain(h) == ~HasPrefix(Base(h.Name), WhPrefix)

\* The path an entry is about: the directory of an opaque marker, the path a
\* whiteout names, the path of an entry proper.
Target(h) ==
    IF IsOpaque(h) THEN Dir(h.Name)
    ELSE IF IsWhiteout(h)
    THEN Join(Dir(h.Name), TrimPrefix(Base(h.Name), WhPrefix))
    ELSE Clean(h.Name)

\* p and q are the same path or one lies below the other.
Related(p, q) == p = q \/ IsBelow(p, q) \/ IsBelow(q, p)

\* The entry h names t, something above t or something below it.
Touches(h, t) ==
    IF IsPlnk(h) THEN FALSE
    ELSE IF IsOpaque(h) THEN IsBelow(t, Target(h))
    ELSE \/ Related(Target(h), t)
         \/ (IsPlain(h) /\ h.Typeflag = TypeLink /\ Related(Clean(h.Linkname), t))

\* Target and Touches, tabulated over the headers.
TargetOf == [h \in Headers |-> Target(h)]
TouchedBy == [h \in Headers |-> {t \in FsPaths : Touches(h, t)}]
Whiteouts == {h \in Headers : IsWhiteout(h)}
Plains == {h \in Headers : IsPlain(h)}

\* The history of one iteration for the header h with the outcome r.
FreshNext(h, r) ==
    {q \in FsPaths :
        /\ Exists(r.fs, q)
        /\ (q \in fresh \/ ~Exists(fs, q) \/ (r.created /\ q = TargetOf[h]))}
WhitedAtNext(h, r) ==
    [t \in FsPaths |->
        IF t \notin TouchedBy[h] THEN whitedAt[t]
        ELSE IF h \in Whiteouts /\ TargetOf[h] = t /\ Exists(fs, t) /\ t \notin fresh
             THEN li ELSE 0]
RevivedAtNext(h, r) ==
    [t \in FsPaths |->
        IF t \notin TouchedBy[h] THEN revivedAt[t]
        ELSE IF /\ h \in Plains /\ TargetOf[h] = t /\ r.created /\ r.err = Nil
                /\ whitedAt[t] # 0 /\ whitedAt[t] < li
             THEN li ELSE 0]
MissedNext(h, r) ==
    IF h \in Whiteouts
    THEN IF Exists(fs, TargetOf[h])
         THEN missed \ {TargetOf[h]} ELSE missed \cup {TargetOf[h]}
    ELSE IF h \in Plains THEN missed \ {TargetOf[h]}
    ELSE missed

\* increment: tr.Next returns a header and the loop makes one iteration.
TarNext ==
    /\ stage = "layers"
    /\ tar
    /\ entriesLeft > 0
    /\ \E h \in Headers, fail \in Failures :
          \E r \in {Iterate(h, fs, added, del, fail)} :
              /\ hdr' = h
              /\ eops' = r.ops
              /\ fs' = r.fs
              /\ added' = r.added
              /\ del' = r.del
              /\ fresh' = FreshNext(h, r)
              /\ whitedAt' = WhitedAtNext(h, r)
              /\ revivedAt' = RevivedAtNext(h, r)
              /\ missed' = MissedNext(h, r)
              /\ IF r.err = Nil
                 THEN UNCHANGED <<stage, attempt, dret, lastErr, tar>>
                 ELSE Failed(r.err) /\ tar' = FALSE
    /\ entriesLeft' = entriesLeft - 1
    /\ UNCHANGED <<manifest, li, body, faultsLeft, calls, succeeded>>
    /\ UNCHANGED rvars
    /\ UNCHANGED xvars

\* increment: tr.Next returns an error.
TarError ==
    /\ stage = "layers"
    /\ tar
    /\ \E err \in Fault(ErrTar) : Failed(err)
    /\ faultsLeft' = Spend(faultsLeft)
    /\ tar' = FALSE
    /\ UNCHANGED <<manifest, li, body, entriesLeft, fs, added, del, hdr, eops, fresh,
                   whitedAt, revivedAt, missed, calls, succeeded>>
    /\ UNCHANGED rvars
    /\ UNCHANGED xvars

\* Mutant of TarEOF: the digest is not compared.
TarEOFUnchecked ==
    /\ stage = "layers"
    /\ tar
    /\ succeeded' = [succeeded EXCEPT !.layers = li]
    /\ li' = li + 1
    /\ attempt' = 1
    /\ lastErr' = Nil
    /\ IF li = Len(manifest)
       THEN stage' = "done" /\ dret' = Nil
       ELSE UNCHANGED <<stage, dret>>
    /\ tar' = FALSE
    /\ UNCHANGED <<manifest, body, entriesLeft, faultsLeft, fs, added, del, hdr,
                   eops, fresh, whitedAt, revivedAt, missed, calls>>
    /\ UNCHANGED rvars
    /\ UNCHANGED xvars

\* increment: tr.Next returns io.EOF: the digest of the bytes that went
\* through the hasher, which are the whole body once the archive has been
\* read to its end, is compared with the digest of the manifest; Apply goes on
\* to the next layer or returns nil after the last.
TarEOF ==
    /\ stage = "layers"
    /\ tar
    /\ LET computedDigest == Sha256(body)
           digest == manifest[li]
       IN  IF computedDigest # digest
           THEN Failed(ErrDigest) /\ UNCHANGED <<li, succeeded>>
           ELSE /\ succeeded' = [succeeded EXCEPT !.layers = li]
                /\ li' = li + 1
                /\ attempt' = 1
                /\ lastErr' = Nil
                /\ IF li = Len(manifest)
                   THEN stage' = "done" /\ dret' = Nil
                   ELSE UNCHANGED <<stage, dret>>
    /\ tar' = FALSE
    /\ UNCHANGED <<manifest, body, entriesLeft, faultsLeft, fs, added, del, hdr,
                   eops, fresh, whitedAt, revivedAt, missed, calls>>
    /\ UNCHANGED rvars
    /\ UNCHANGED xvars

\* ---------------------------------------------------- a layer applied again

\* The longest archive applied again.
MaxLen == 2

\* The archives: up to MaxLen entries.
Archives == UNION {[1..n -> Headers] : n \in 1..MaxLen}

\* The filesystems a layer is applied on, as earlier layers made them:
\* nothing, a directory, a file, a file in a subdirectory, two hard links of
\* a file, a symlink.
StartFs ==
    LET dir == MkdirAll(EmptyFs, PathD).fs
        file == WriteFile(dir, PathDX, FileData).fs
    IN  {EmptyFs,
         dir,
         file,
         WriteFile(MkdirAll(EmptyFs, PathDX).fs, PathDXF, FileData).fs,
         Link(file, PathDX, PathDY).fs,
         Symlink(dir, PathDY).fs}

\* The state of increment when it starts on the filesystem f.
Start(f) == Iteration(f, {}, {}, <<>>, Nil, FALSE)

\* One application of the archive that nothing interrupts, on the filesystem
\* of the start, after the state r: the iteration for the header h.
OnceNext(r, h) ==
    IF r.err # Nil THEN r ELSE Iterate(h, r.fs, r.added, r.del, "none")

\* increment: one iteration of the loop for the next entry of the archive.
ReapplyNext ==
    /\ stage = "layers"
    /\ tar
    /\ pos \in 1..Len(archive)
    /\ \E h \in {archive[pos]} :
          /\ \E r \in {Iterate(h, fs, added, del, "none")} :
                /\ fs' = r.fs
                /\ added' = r.added
                /\ del' = r.del
                /\ eops' = r.ops
                /\ IF r.err = Nil
                   THEN UNCHANGED <<stage, attempt, lastErr, dret, tar>>
                   ELSE Failed(r.err) /\ tar' = FALSE
          /\ hdr' = h
          /\ \E o \in {IF attempt = 2 THEN OnceNext(once, h) ELSE once} : once' = o
    /\ pos' = pos + 1
    /\ UNCHANGED <<manifest, li, body, entriesLeft, faultsLeft, fresh, whitedAt,
                   revivedAt, missed, calls, succeeded, archive>>
    /\ UNCHANGED xvars

\* retry.Do calls increment again after the retryable error err of the first
\* attempt: the same blob is downloaded and read from its first entry, with
\* new maps added and del, on the filesystem as the first attempt left it.
Again(err) ==
    /\ stage = "layers"
    /\ tar
    /\ attempt = 1
    /\ Failed(err)
    /\ calls' = Call("layers", li)
    /\ pos' = 1
    /\ added' = {}
    /\ del' = {}
    /\ hdr' = NoHeader
    /\ eops' = <<>>
    /\ UNCHANGED <<manifest, li, tar, body, entriesLeft, faultsLeft, fs, fresh,
                   whitedAt, revivedAt, missed, succeeded, archive, once>>
    /\ UNCHANGED xvars

\* increment: tr.Next returns an error part-way through the archive.
ReapplyAfterTarError ==
    /\ pos \in 2..Len(archive)
    /\ Again(ErrTar)

\* increment: the archive was read to its end and the digest does not match.
ReapplyAfterDigestError ==
    /\ pos = Len(archive) + 1
    /\ Again(ErrDigest)

\* ------------------------------------------------------------------- spec

Server ==
    \/ ReceiveConfig
    \/ EnterChroot
    \/ PrepareNewRoot
    \/ MountProc
    \/ MountTmp
    \/ PopulateDev
    \/ ApplyMounts
    \/ PivotRoot
    \/ ConfigureDNS
    \/ Receive
    \/ ExecWrite
    \/ ExecExit
    \/ FlushOut
    \/ FlushErr
    \/ CopyDone
    \/ ApplyDone
    \/ SendResult

Next == CancelParent \/ HostCloseStdout \/ Watchdog \/ Server

Spec == Init /\ [][Next]_vars

\* applyMounts alone: it starts where Run calls it, after populateDev, on any
\* mount table.
InitMounts ==
    /\ DockerIdle
    /\ cancelled = FALSE
    /\ cancelledMid = FALSE
    /\ stdinClosed = FALSE
    /\ stdoutOpen = TRUE
    /\ watchdog = "waiting"
    /\ pc = "applyMounts"
    /\ \E m \in MountLists :
          /\ config = Config(FALSE, m)
          /\ first = [msg |-> config, err |-> Nil]
          /\ recv = first
    /\ mi = 1
    /\ ops = PrepareNewRootOps \o MountProcOps \o MountTmpOps \o PopulateDevOps
    /\ reqs = <<>>
    /\ outcomes = <<>>
    /\ sent = <<>>
    /\ lt = EmptyBufs
    /\ pump = NoPumps
    /\ written = NoBytes
    /\ nwrites = 0
    /\ ret = Nil

NextMounts == ApplyMounts

SpecMounts == InitMounts /\ [][NextMounts]_vars

\* execute alone: it starts where Run calls it, on the first request of a
\* server in chroot mode, and ends when it has returned.
InitLog ==
    /\ DockerIdle
    /\ cancelled = FALSE
    /\ cancelledMid = FALSE
    /\ stdinClosed = FALSE
    /\ stdoutOpen = TRUE
    /\ watchdog = "waiting"
    /\ pc = "exec"
    /\ config = Config(TRUE, <<>>)
    /\ first = [msg |-> config, err |-> Nil]
    /\ recv = [msg |-> [type |-> "Execute"], err |-> Nil]
    /\ mi = 1
    /\ ops = ChrootOps
    /\ reqs = <<[type |-> "Execute"]>>
    /\ outcomes = <<>>
    /\ sent = <<>>
    /\ lt = EmptyBufs
    /\ pump = [s \in Streams |-> TRUE]
    /\ written = NoBytes
    /\ nwrites = 0
    /\ ret = Nil

NextLog == LogWrite \/ ExecExit \/ FlushOut \/ FlushErr \/ HostCloseStdout

SpecLog == InitLog /\ [][NextLog]_vars

\* Run has received an InitFromDocker request first, in chroot mode, and
\* calls docker.Apply.
InitHandler ==
    /\ cancelled = FALSE
    /\ cancelledMid = FALSE
    /\ stdinClosed = FALSE
    /\ stdoutOpen = TRUE
    /\ watchdog = "waiting"
    /\ pc = "apply"
    /\ config = Config(TRUE, <<>>)
    /\ first = [msg |-> config, err |-> Nil]
    /\ recv = [msg |-> [type |-> "InitFromDocker"], err |-> Nil]
    /\ mi = 1
    /\ ops = ChrootOps
    /\ reqs = <<[type |-> "InitFromDocker"]>>
    /\ outcomes = <<>>
    /\ sent = <<>>
    /\ lt = EmptyBufs
    /\ pump = NoPumps
    /\ written = NoBytes
    /\ nwrites = 0
    /\ ret = Nil

\* docker.Apply alone: it starts where Run calls it, on an InitFromDocker
\* request received first by a server in chroot mode, in an empty directory;
\* the layers hold `entries` tar entries and `faults` failures happen.
InitApply(entries, faults) ==
    /\ InitHandler
    /\ NoReapply
    /\ stage = "token"
    /\ attempt = 1
    /\ manifest = <<>>
    /\ li = 0
    /\ tar = FALSE
    /\ body = <<>>
    /\ entriesLeft = entries
    /\ faultsLeft = faults
    /\ fs = EmptyFs
    /\ added = {}
    /\ del = {}
    /\ hdr = NoHeader
    /\ eops = <<>>
    /\ fresh = {}
    /\ whitedAt = [p \in FsPaths |-> 0]
    /\ revivedAt = [p \in FsPaths |-> 0]
    /\ missed = {}
    /\ calls = NoCalls
    /\ succeeded = NoneSucceeded
    /\ lastErr = Nil
    /\ dret = Nil

NextDocker == Authorize \/ Layers \/ Get \/ TarNext \/ TarError \/ TarEOF

\* Layers of a few entries applied over a registry that seldom fails.
InitDocker == InitApply(MaxEntries, MaxFaults)

SpecDocker == InitDocker /\ [][NextDocker]_vars

\* One tar entry, and a registry that fails as often as it likes.
InitRetry == InitApply(1, Unlimited)

SpecRetry == InitRetry /\ [][NextDocker]_vars

\* The second layer of an image, any archive, is applied on the filesystem
\* the first layer left, and applied again after a retryable error.
InitReapply ==
    /\ InitHandler
    /\ stage = "layers"
    /\ attempt = 1
    /\ manifest = <<Sha256(Blob(1)), Sha256(Blob(2))>>
    /\ li = 2
    /\ tar = TRUE
    /\ body = Blob(2)
    /\ entriesLeft = 0
    /\ faultsLeft = 0
    /\ added = {}
    /\ del = {}
    /\ hdr = NoHeader
    /\ eops = <<>>
    /\ fresh = {}
    /\ whitedAt = [p \in FsPaths |-> 0]
    /\ revivedAt = [p \in FsPaths |-> 0]
    /\ missed = {}
    /\ calls = [stage |-> "layers", layer |-> 2, n |-> 1]
    /\ succeeded = [token |-> TRUE, manifest |-> TRUE, layers |-> 1]
    /\ lastErr = Nil
    /\ dret = Nil
    /\ pos = 1
    /\ fs \in StartFs
    /\ archive \in Archives
    /\ once = Start(fs)

NextReapply == ReapplyNext \/ ReapplyAfterTarError \/ ReapplyAfterDigestError

SpecReapply == InitReapply /\ [][NextReapply]_vars

\* The handlers that have run end, the commands that a cancelled context
\* terminates included, and a Send returns: the host reads stdout or closes it.
Handlers == ExecExit \/ FlushOut \/ FlushErr \/ CopyDone \/ ApplyDone \/ SendResult

\* The scheduler runs the watchdog; a Receive on the closed stdin returns; a
\* handler running under a cancelled context ends.
FairSpec ==
    /\ Spec
    /\ WF_vars(Watchdog)
    /\ WF_vars(stdinClosed /\ Receive)
    /\ WF_vars(cancelled /\ Handlers)

\* ----------------------------------------------------------------- claims

IsResult(f) == f.type = "Result"
IsLog(f) == f.type = "Log"
Results == SelectSeq(sent, IsResult)
RequestTypes == {"Execute", "Copy", "InitFromDocker"}

\* The number of Result frames among the first n frames sent.
ResultsBefore(n) == Len(SelectSeq(SubSeq(sent, 1, n), IsResult))

\* C1: the Results are sent one per request and in request order: the k-th
\* Result carries the outcome of the k-th request, a request is being handled
\* exactly when one Result is outstanding, and the loop is back in Receive only
\* when every request received has its Result.
C1_ResultsInRequestOrder ==
    /\ Len(Results) <= Len(reqs)
    /\ Len(reqs) <= Len(Results) + 1
    /\ Len(Results) <= Len(outcomes)
    /\ \A k \in 1..Len(Results) :
          Results[k].Error = (IF outcomes[k] = Nil THEN "" ELSE outcomes[k].text)
    /\ pc = "receive" => Len(Results) = Len(reqs)
    /\ pc \in HandlingPcs => Len(reqs) = Len(Results) + 1

\* C1 witness: two requests with different outcomes have both been answered.
C1_Witness ==
    /\ pc = "receive"
    /\ Len(reqs) = 2
    /\ Len(Results) = 2
    /\ Results[1].Error # ""
    /\ Results[2].Error = ""

\* C2: every Log frame lies between an Execute request and its Result (the
\* request open when the frame was sent is an Execute), and when a Result can
\* be sent neither transmitter holds bytes that were not sent.
C2_LogsWithinExecute ==
    /\ \A i \in 1..Len(sent) :
          IsLog(sent[i]) =>
             /\ ResultsBefore(i) < Len(reqs)
             /\ reqs[ResultsBefore(i) + 1].type = "Execute"
    /\ (pc = "result" /\ stdoutOpen) => \A s \in Streams : lt[s] = <<>>
    /\ pc = "receive" => \A s \in Streams : lt[s] = <<>>

\* C2 witness: an Execute whose two transmitters both sent a Log frame has
\* been answered.
C2_Witness ==
    /\ pc = "receive"
    /\ Len(sent) = 3
    /\ IsLog(sent[1]) /\ sent[1].Stream = StreamOut
    /\ IsLog(sent[2]) /\ sent[2].Stream = StreamErr
    /\ IsResult(sent[3])

\* C3 as stated: once the context is cancelled while a request is being
\* handled, no frame is sent any more.
C3_NoFrameAfterCancel == [][cancelledMid => sent' = sent]_vars

\* C3 amended: a cancellation during a request does not suppress its frames:
\* the server returns only from a failing Receive, a failing Send or an
\* unexpected message, and unless the Send failed every request received,
\* the one in flight at the cancellation included, has its Result.
C3_CancelCompletesRequest ==
    (cancelledMid /\ pc = "done") =>
       /\ ret \in {Canceled, ErrSendResult, ErrUnexpected}
       /\ ret # ErrSendResult => (Len(reqs) >= 1 /\ Len(Results) = Len(reqs))

\* C3 witness: cancelled during an Execute, the server has sent the Result
\* with the cancellation error and returned from the next Receive.
C3_Witness ==
    /\ cancelledMid
    /\ pc = "done"
    /\ ret = Canceled
    /\ Len(reqs) = 1
    /\ reqs[1].type = "Execute"
    /\ Len(sent) >= 2
    /\ sent[Len(sent)] = Result("context canceled")
    /\ IsLog(sent[1])

\* C4: after a cancellation the watchdog closes stdin, a server waiting in
\* Receive terminates, and a Receive that failed under a cancelled context is
\* never returned as "receiving message failed".
C4_CancelUnblocksReceive ==
    /\ [](ret \in {ErrReceive(e) : e \in {EOF, ErrClosed, ErrDecode}} => ~cancelled)
    /\ (cancelled ~> stdinClosed)
    /\ ((cancelled /\ pc = "receive") ~> (pc = "done"))

\* C4 witness: cancelled while waiting in Receive, stdin was closed and the
\* server returned the context's error from the failed Receive.
C4_Witness ==
    /\ cancelled
    /\ ~cancelledMid
    /\ stdinClosed
    /\ config # NoMsg
    /\ pc = "done"
    /\ recv.err = ErrClosed
    /\ ret = Canceled

\* C5: without a Config as first frame nothing is done: no operation of the
\* sandbox, no request, no frame; a first frame of another type ends the
\* server with the "expected Config" error.
C5_ConfigFirst ==
    /\ first.msg.type # "Config" =>
          /\ ops = <<>>
          /\ reqs = <<>>
          /\ sent = <<>>
          /\ pc \in {"recvConfig", "done"}
    /\ (first.err = Nil /\ first.msg.type \in RequestTypes) =>
          pc = "done" /\ ret = ErrExpectedConfig

\* C5 witness: the first frame was an Execute and the server has returned.
C5_Witness ==
    /\ first.msg.type = "Execute"
    /\ pc = "done"

\* C6: a handler's failure is reported and survived: the Result of a failed
\* request carries the failure text, that of a successful one the empty
\* string; once the error of a handler is known the server is on its way to
\* send the Result, or the Send failed; the server never returns a handler's
\* error.
C6_FailureReportedLoopContinues ==
    /\ \A k \in 1..Len(Results) :
          /\ outcomes[k] # Nil =>
                (Results[k].Error = outcomes[k].text /\ Results[k].Error # "")
          /\ outcomes[k] = Nil => Results[k].Error = ""
    /\ (Len(outcomes) = Len(reqs) /\ Len(Results) < Len(reqs)) =>
          \/ pc \in {"flushOut", "flushErr", "result"}
          \/ (pc = "done" /\ ret = ErrSendResult /\ ~stdoutOpen)
    /\ pc = "done" => ret \notin {ErrCommand, ErrCopy, ErrApply}

\* C6 witness: the first request failed, its Result says so, and a second
\* request has been received.
C6_Witness ==
    /\ Len(reqs) = 2
    /\ outcomes[1] \in {ErrCommand, ErrCopy, ErrApply}
    /\ Len(Results) >= 1
    /\ Results[1].Error = outcomes[1].text

\* C7: a Receive of the dispatch loop that brings no request (a second
\* Config, or an unregistered tag) ends the server with an error and without
\* a frame, and a server that has returned sends nothing.
C7_UnexpectedFrameIsFatal ==
    /\ [][(/\ pc = "receive"
           /\ pc' # "receive"
           /\ \/ recv'.err = ErrDecode
              \/ (recv'.err = Nil /\ recv'.msg.type \notin RequestTypes))
          => (/\ pc' = "done"
              /\ ret' # Nil
              /\ sent' = sent
              /\ reqs' = reqs)]_vars
    /\ [][pc = "done" => (sent' = sent /\ pc' = "done")]_vars

\* C7 witness: after an answered request a second Config ended the server.
C7_Witness ==
    /\ pc = "done"
    /\ ret = ErrUnexpected
    /\ recv.msg.type = "Config"
    /\ Len(Results) = 1

\* C8 as stated: an EOF on stdin under a live context always ends the server
\* without an error.
C8_EOFAlwaysClean ==
    (pc = "done" /\ recv.err = EOF /\ ~cancelled) => ret = Nil

\* C8 amended: an EOF under a live context ends the server without an error
\* when it arrives in the dispatch loop, and with "fetching configuration
\* failed" when it arrives in place of the Config.
C8_EOFCleanInLoop ==
    (pc = "done" /\ recv.err = EOF /\ ~cancelled) =>
       ret = (IF config = NoMsg THEN ErrFetchConfig(EOF) ELSE Nil)

\* C8 witness: the host closed stdin after one answered request and the
\* server returned nil.
C8_Witness ==
    /\ pc = "done"
    /\ recv.err = EOF
    /\ ~cancelled
    /\ Len(Results) = 1
    /\ ret = Nil

\* The mount table the operations build: a bind adds a mount on its path, a
\* read-only remount marks the topmost mount on its path.
RECURSIVE MountTable(_)
MountTable(o) ==
    IF o = <<>> THEN <<>>
    ELSE LET before == MountTable(SubSeq(o, 1, Len(o) - 1))
             last == o[Len(o)]
         IN  IF last.op = "bind"
             THEN Append(before, [host |-> last.host, path |-> last.path, ro |-> FALSE])
             ELSE IF last.op = "remount_ro"
                     /\ \E i \in 1..Len(before) : before[i].path = last.path
                  THEN LET top == CHOOSE i \in 1..Len(before) :
                                     /\ before[i].path = last.path
                                     /\ \A j \in (i + 1)..Len(before) :
                                           before[j].path # last.path
                       IN  [before EXCEPT ![top].ro = TRUE]
                  ELSE before

\* C9 as stated: every path applyMounts creates or mounts on lies under the
\* new root.
C9_MountTargetsUnderRoot ==
    \A i \in 1..Len(ops) :
       ops[i].op \in {"mkdirall", "bind", "remount_ro"} => UnderRoot(ops[i].path)

\* C10: applyMounts works through the mounts in order: after mi - 1
\* iterations the mount table holds one mount per mount processed, in that
\* order, from its host path, read-only exactly when the mount is not
\* writable; when applyMounts has returned nil this covers every mount.
C10_MountsInOrderReadOnly ==
    (pc \in {"applyMounts", "pivotRoot"}) =>
       LET table == MountTable(ops)
       IN  /\ Len(table) = mi - 1
           /\ pc = "pivotRoot" => mi = Len(config.Mounts) + 1
           /\ \A i \in 1..Len(table) :
                 /\ table[i].host = config.Mounts[i].Host
                 /\ table[i].path = JoinDot(config.Mounts[i].Container)
                 /\ table[i].ro = ~config.Mounts[i].Writable

\* C10 witness: two mounts on the same path, the first read-only and the
\* second writable, have been applied.
C10_Witness ==
    /\ pc = "pivotRoot"
    /\ Len(config.Mounts) = 2
    /\ config.Mounts[1].Container = config.Mounts[2].Container
    /\ ~config.Mounts[1].Writable
    /\ config.Mounts[2].Writable

\* The operations of applyMounts on a mount table, in order.
RECURSIVE AllMountOps(_)
AllMountOps(mounts) ==
    IF mounts = <<>> THEN <<>>
    ELSE MountOps(mounts[1]) \o AllMountOps(SubSeq(mounts, 2, Len(mounts)))

\* The operations of the namespace mode, in the order Run performs them.
NamespaceOps(mounts) ==
    PrepareNewRootOps \o MountProcOps \o MountTmpOps \o PopulateDevOps
    \o AllMountOps(mounts) \o PivotRootOps \o ConfigureDNSOps

IsPrefix(p, q) == Len(p) <= Len(q) /\ p = SubSeq(q, 1, Len(p))

\* C11: in namespace mode the operations performed are always a prefix of the
\* fixed sequence remount, bind root, chdir, proc, tmp, dev, mounts, pivot,
\* resolv.conf; as long as that sequence is not complete no request has been
\* received and no frame sent, and a server that returned before completing it
\* returned an error; the dispatch loop runs only when it is complete.
C11_NamespaceStepsInOrder ==
    (config # NoMsg /\ ~config.Chroot) =>
       LET all == NamespaceOps(config.Mounts)
       IN  /\ IsPrefix(ops, all)
           /\ ops # all => (reqs = <<>> /\ sent = <<>>)
           /\ (ops # all /\ pc = "done") => ret # Nil
           /\ (pc = "receive" \/ pc \in HandlingPcs) => ops = all
           /\ reqs # <<>> => ops = all

\* C11 witness: both mounts were applied, the pivot failed, and the server
\* returned the pivot's error having received and sent nothing.
C11_Witness ==
    /\ config # NoMsg
    /\ ~config.Chroot
    /\ Len(config.Mounts) = 2
    /\ pc = "done"
    /\ ret = ErrPivot
    /\ Len(ops) > Len(NamespaceOps(config.Mounts))
                   - Len(PivotRootOps) - Len(ConfigureDNSOps)
    /\ reqs = <<>>
    /\ sent = <<>>

\* The namespace-mode places of the server.
NamespacePcs ==
    {"prepareNewRoot", "mountProc", "mountTmp", "populateDev", "applyMounts",
     "pivotRoot", "configureDNS"}

\* C17: in chroot mode the only operations are the chroot at "." and, once
\* the server has returned after entering it, exactly one exit from the
\* chroot: no namespace step runs, no mount of the Config is applied, and the
\* exit is made whatever ended the dispatch loop.
C17_ChrootOnly ==
    (config # NoMsg /\ config.Chroot) =>
       /\ pc \notin NamespacePcs
       /\ IsPrefix(ops, <<Sys("chroot ."), Sys("exit chroot")>>)
       /\ pc # "done" => Len(ops) <= 1
       /\ (pc = "receive" \/ pc \in HandlingPcs \/ reqs # <<>>) =>
             (ops # <<>> /\ ops[1] = Sys("chroot ."))
       /\ (pc = "done" /\ ops # <<>>) =>
             ops = <<Sys("chroot ."), Sys("exit chroot")>>

\* C17 witness: a Config with chroot set and two mounts: after one answered
\* request the host closed stdout, the next Send failed and the server
\* returned, leaving the chroot.
C17_Witness ==
    /\ config # NoMsg
    /\ config.Chroot
    /\ Len(config.Mounts) = 2
    /\ pc = "done"
    /\ ret = ErrSendResult
    /\ Len(Results) = 1
    /\ ops = <<Sys("chroot ."), Sys("exit chroot")>>

\* The frames a step has added to stdout.
NewFrames == SubSeq(sent', Len(sent) + 1, Len(sent'))

\* What a Write of the next n bytes on stream s must do: nothing is sent and
\* the bytes join the buffer while the accumulated length is below 100; else
\* at most one frame is sent, and a frame that is sent holds all accumulated
\* bytes and leaves the buffer empty.
WriteAsClaimed(s, n) ==
    LET data == Chunk(written[s], n)
    IN  IF Len(lt[s]) + n < 100
        THEN NewFrames = <<>> /\ lt'[s] = lt[s] \o data
        ELSE /\ stdoutOpen =>
                  (NewFrames = <<Log(s, lt[s] \o data)>> /\ lt'[s] = <<>>)
             /\ ~stdoutOpen => (NewFrames = <<>> /\ lt'[s] = lt[s])

\* What a Flush on stream s must do: nothing on an empty buffer, else one
\* frame with the residual bytes, after which the buffer is empty.
FlushAsClaimed(s) ==
    IF lt[s] = <<>>
    THEN NewFrames = <<>> /\ lt'[s] = <<>>
    ELSE /\ stdoutOpen => (NewFrames = <<Log(s, lt[s])>> /\ lt'[s] = <<>>)
         /\ ~stdoutOpen => (NewFrames = <<>> /\ lt'[s] = lt[s])

\* C12: every Write buffers below 100 accumulated bytes and sends one frame
\* with all accumulated bytes from 100 on, emptying the buffer; every Flush
\* sends the residual bytes in one frame, or nothing when there are none (a
\* frame whose Send fails is not sent and leaves the buffer as it was); the
\* buffer always holds fewer than 100 bytes and no Log frame is empty.
C12_WriteFlushThreshold ==
    /\ [][/\ \A s \in Streams :
               written'[s] # written[s] => WriteAsClaimed(s, written'[s] - written[s])
          /\ (pc = "flushOut" /\ pc' = "flushErr") => FlushAsClaimed(StreamOut)
          /\ (pc = "flushErr" /\ pc' = "result") => FlushAsClaimed(StreamErr)]_vars
    /\ [](\A s \in Streams : Len(lt[s]) < 100)
    /\ [](\A i \in 1..Len(sent) : IsLog(sent[i]) => sent[i].Text # <<>>)

\* C12 witness: two writes of 50 bytes on Out reached the threshold exactly and
\* went out as one frame of 100 bytes; both flushes found an empty buffer.
C12_Witness ==
    /\ pc = "result"
    /\ nwrites = 2
    /\ written[StreamOut] = 100
    /\ sent = <<Log(StreamOut, Chunk(0, 100))>>
    /\ lt = EmptyBufs

\* The bytes of the Log frames of stream s, in sending order.
RECURSIVE StreamText(_, _)
StreamText(frames, s) ==
    IF frames = <<>> THEN <<>>
    ELSE (IF IsLog(frames[1]) /\ frames[1].Stream = s THEN frames[1].Text ELSE <<>>)
         \o StreamText(SubSeq(frames, 2, Len(frames)), s)

\* C13: while every Send succeeded, the Log frames of a stream followed by
\* its buffer hold exactly the bytes written to it, in order; once both
\* flushes have returned the buffers are empty, so the frames alone do.
C13_StreamBytesPreserved ==
    stdoutOpen =>
       \A s \in Streams :
          /\ StreamText(sent, s) \o lt[s] = Chunk(0, written[s])
          /\ pc = "result" => StreamText(sent, s) = Chunk(0, written[s])

\* C13 witness: 150 bytes and then 1 byte were written to Out: a frame of
\* 150 bytes from Write and a frame of 1 byte from Flush.
C13_Witness ==
    /\ pc = "result"
    /\ stdoutOpen
    /\ Len(sent) = 2
    /\ sent[1] = Log(StreamOut, Chunk(0, 150))
    /\ sent[2] = Log(StreamOut, Chunk(150, 1))

\* C14: a path that an earlier layer created and a whiteout of a later layer
\* named is absent with everything below it, for as long as no later entry
\* names it or a path above or below it; and such a path, when an entry of a
\* yet later layer has created it again, is present, under the same proviso.
C14_WhiteoutAcrossLayers ==
    \A t \in FsPaths :
       /\ whitedAt[t] # 0 =>
             (~Exists(fs, t) /\ \A q \in FsPaths : IsBelow(q, t) => ~Exists(fs, q))
       /\ revivedAt[t] # 0 => Exists(fs, t)

\* C14 witness: three layers were applied: the first created d/x, the second
\* held the whiteout d/.wh.x, the third created d/x again.
C14_Witness ==
    /\ stage = "done"
    /\ dret = Nil
    /\ Len(manifest) = 3
    /\ revivedAt[PathDX] = 3
    /\ Exists(fs, PathDX)

\* A step is an iteration of increment's loop that ended without an error.
IterationOk ==
    /\ entriesLeft' = entriesLeft - 1
    /\ stage' = stage
    /\ attempt' = attempt

\* C15 as stated: when an opaque marker of directory D has been processed,
\* every direct child of D that no earlier entry of this layer created is
\* gone, and every path below D that an earlier entry of this layer created
\* still exists.
C15_OpaqueKeepsOwnEntries ==
    [][(IterationOk /\ IsOpaque(hdr')) =>
         LET D == Dir(hdr'.Name)
         IN  /\ \A q \in FsPaths :
                   (Dir(q) = D /\ Exists(fs, q) /\ q \notin fresh) => ~Exists(fs', q)
             /\ \A q \in fresh : IsBelow(q, D) => Exists(fs', q)]_vars

\* C18 as stated: after a whiteout of X that found X missing, the next entry
\* of the layer named X creates nothing, and an entry named X that no such
\* whiteout precedes is created.
C18_MissedWhiteoutSuppresses ==
    [][(IterationOk /\ hdr' \in Plains) =>
         IF TargetOf[hdr'] \in missed
         THEN ~Exists(fs', TargetOf[hdr'])
         ELSE Exists(fs', TargetOf[hdr'])]_vars

\* The operations that create the path of an entry.
CreateOps == {"mkdirall", "write", "symlink", "link"}

\* C19: in the iteration for an entry that creates a path, the owner is set
\* right after the path was created and before the mode; the mode is set
\* last and on that path, never for a symlink; an iteration that ended
\* without an error has set the owner and, unless the entry is a symlink,
\* the mode.
C19_ChownThenChmodLast ==
    (hdr \in Plains) =>
       LET p == TargetOf[hdr]
       IN  /\ \A i \in 1..Len(eops) :
                 /\ eops[i].op = "chmod" =>
                       /\ i = Len(eops)
                       /\ eops[i].path = p
                       /\ hdr.Typeflag # TypeSymlink
                       /\ i > 1 /\ eops[i - 1] = FsOp("lchown", p)
                 /\ eops[i].op = "lchown" =>
                       /\ eops[i].path = p
                       /\ i > 1 /\ eops[i - 1].op \in CreateOps /\ eops[i - 1].path = p
           /\ (tar /\ hdr.Name \in added) =>
                 eops[Len(eops)] =
                    FsOp(IF hdr.Typeflag = TypeSymlink THEN "lchown" ELSE "chmod", p)

\* C19 witness: a hard link d/y to d/x, which the entry had to create first:
\* the empty d/x, the link, the owner and the mode of d/y.
C19_Witness ==
    /\ tar
    /\ hdr = Header(TypeLink, PathDY, PathDX)
    /\ eops = <<FsOp("removeall", PathDY), FsOp("create", PathDX),
                FsOp("link", PathDY), FsOp("lchown", PathDY), FsOp("chmod", PathDY)>>

\* C16: a layer is counted as applied only by a step that found the digest of
\* the downloaded bytes equal to the digest of the manifest; the step that
\* finds them different leaves the retryable digest error, changes nothing
\* in the filesystem and, while attempts are left, stays on the same layer
\* with the archive closed, so that the next attempt downloads it again; the
\* download does not touch the filesystem either.
C16_DigestVerified ==
    [][/\ succeeded'.layers # succeeded.layers =>
             /\ succeeded'.layers = li
             /\ Sha256(body) = manifest[li]
       /\ (stage = "layers" /\ tar /\ ~tar' /\ entriesLeft' = entriesLeft
               /\ lastErr' # ErrTar /\ Sha256(body) # manifest[li]) =>
             /\ lastErr' = ErrDigest
             /\ IsRetryable(lastErr')
             /\ fs' = fs
             /\ li' = li
             /\ succeeded' = succeeded
             /\ IF attempt < MaxAttempts
                THEN stage' = "layers" /\ attempt' = attempt + 1
                ELSE stage' = "done" /\ dret' = ErrDigest
       /\ (stage = "layers" /\ ~tar /\ tar') =>
             /\ fs' = fs
             /\ added' = {}
             /\ del' = {}]_vars

\* C16 witness: the second attempt of the first layer is reading the archive
\* after the first one ended with the digest error, and the directory the
\* first attempt created is still there.
C16_Witness ==
    /\ stage = "layers"
    /\ li = 1
    /\ attempt = 2
    /\ tar
    /\ lastErr = ErrDigest
    /\ Sha256(body) = manifest[li]
    /\ hdr = NoHeader
    /\ Exists(fs, PathD)

C21_EarlierPathsUntouched ==
    [][(IterationOk /\ attempt = 1 /\ hdr' \in Plains) =>
         \A q \in FsPaths :
            (/\ Exists(fs, q)
             /\ q \notin fresh
             /\ q # TargetOf[hdr']
             /\ IsBelow(q, TargetOf[hdr']) => hdr'.Typeflag = TypeDir) =>
               /\ fs'.tree[q] = fs.tree[q]
               /\ KindOf(fs, q) = "file" =>
                     fs'.data[fs.tree[q].ino] = fs.data[fs.tree[q].ino]]_vars

\* The same paths with the same kinds, the same content in every file, and
\* the same paths sharing a file.
SameFiles(a, b) ==
    /\ \A p \in FsPaths :
          /\ KindOf(a, p) = KindOf(b, p)
          /\ KindOf(a, p) = "file" => a.data[a.tree[p].ino] = b.data[b.tree[p].ino]
    /\ \A p, q \in FsPaths :
          (KindOf(a, p) = "file" /\ KindOf(a, q) = "file") =>
             (a.tree[p].ino = a.tree[q].ino <=> b.tree[p].ino = b.tree[q].ino)

\* The attempt has processed every entry of the archive without an error.
Complete == stage = "layers" /\ tar /\ pos = Len(archive) + 1

\* C22 as stated: when the second attempt of a layer has processed the whole
\* archive, after a first attempt that processed all of it or stopped
\* part-way, the filesystem has the paths, the file contents and the links
\* that one complete application on the starting filesystem yields.
C22_ReapplyConverges ==
    (Complete /\ attempt = 2 /\ once.err = Nil) => SameFiles(fs, once.fs)

\* C23 as stated: when a layer has been applied, the name of a hard link
\* entry and its link target are the same file; the entries that follow the
\* hard link in the archive are entries of the link target only.
C23_HardlinkSharesFile ==
    (Complete /\ attempt = 1) =>
       \A i \in 1..Len(archive) :
          (/\ archive[i].Typeflag = TypeLink
           /\ \A j \in (i + 1)..Len(archive) :
                 archive[j] = Header(TypeReg, archive[i].Linkname, <<>>)) =>
             /\ KindOf(fs, Clean(archive[i].Name)) = "file"
             /\ fs.tree[Clean(archive[i].Name)] = fs.tree[Clean(archive[i].Linkname)]
====
